---- MODULE Spec2Model ----
(***************************************************************************)
(* Ticket authentication handshake of                                      *)
(* examples/twisted/wamp/authentication/ticket/server.py:                  *)
(* UserDb (the credential store), PendingAuth (the pending record) and     *)
(* MyRouterSession (onHello / onAuthenticate).                             *)
(*                                                                         *)
(* UserDb.get returns defer.succeed(...): the deferred has already fired   *)
(* when onHello yields it, so inlineCallbacks resumes the generator at     *)
(* once and a whole onHello call is one atomic step of the reactor (Spec,   *)
(* SpecPair).  SpecReactor shows the same call in the steps the reactor     *)
(* takes: up to the yield of the lookup, and from the deferred's callback   *)
(* on.                                                                      *)
(*                                                                         *)
(* SpecWrapper is HelloServerProtocol of                                    *)
(* examples/twisted/websocket/wrapping/server_endpoint.py.                  *)
(***************************************************************************)
EXTENDS Integers, Sequences, FiniteSets, TLC

\* ------------------------------------------------------------------ bounds
\* chunks of data a connection of HelloServerProtocol receives
MaxChunks == 3

\* ------------------------------------------------------------ input domains
Sessions == {"s1", "s2"}
AuthIds == {"peter", "joe", "nobody"}
\* the authids UserDb.add is called for after the main block
AddIds == {"nobody"}
Tickets == {"", "magic_secret_1", "magic_secret_2"}
Roles == {"user", "admin"}
Signatures == {"", "magic_secret_1", "magic_secret_2"}

\* Python's None where a ticket or a role is expected (not a member of Tickets)
None == "None"

\* details.authmethods: None, or a list of method names
NoMethods == [tag |-> "None", list |-> <<>>]
MethodList(l) == [tag |-> "list", list |-> l]
AuthMethods ==
    { NoMethods,
      MethodList(<<>>),
      MethodList(<<"wampcra">>),
      MethodList(<<"ticket">>),
      MethodList(<<"wampcra", "ticket", "ticket">>) }
HelloDetails == [authid : AuthIds, authmethods : AuthMethods]

\* ------------------------------------------------------------------ values
\* the attribute _pending_auth: not yet assigned, None, or a PendingAuth
Unset == [kind |-> "Unset"]
NonePending == [kind |-> "None"]
PendingAuth(ticket, authid, authrole, authmethod, authprovider) ==
    [kind |-> "PendingAuth", signature |-> ticket, authid |-> authid,
     authrole |-> authrole, authmethod |-> authmethod,
     authprovider |-> authprovider]

\* what a handler returns (types.Challenge, types.Accept, types.Deny) or raises
Challenge(method) == [kind |-> "Challenge", method |-> method]
Accept(authid, authrole, authmethod, authprovider) ==
    [kind |-> "Accept", authid |-> authid, authrole |-> authrole,
     authmethod |-> authmethod, authprovider |-> authprovider]
Deny == [kind |-> "Deny"]
AttributeError == [kind |-> "AttributeError"]
NoReply == [kind |-> "NoReply"]

\* Python truth value of a ticket: None and the empty string are false
Truthy(ticket) == ticket # None /\ ticket # ""
\* Python truth value of details.authmethods: None and [] are false
MethodsTruthy(m) == m.tag = "list" /\ Len(m.list) > 0
\* Python truth value of self._pending_auth (read of an assigned attribute)
PendingTruthy(p) == p.kind = "PendingAuth"

\* ------------------------------------------------------------------ UserDb
\* a slip of add below: an entry that exists is kept (setdefault)
add_FirstWins(t, authid, authrole, ticket) ==
    IF authid \in DOMAIN t
    THEN t
    ELSE [a \in (DOMAIN t) \cup {authid} |->
            IF a = authid THEN <<ticket, authrole>> ELSE t[a]]

\* UserDb.add: self._tickets[authid] = (ticket, authrole)
add(t, authid, authrole, ticket) ==
    [a \in (DOMAIN t) \cup {authid} |->
        IF a = authid THEN <<ticket, authrole>> ELSE t[a]]

\* UserDb.get: self._tickets.get(authid, (None, None))
get(t, authid) == IF authid \in DOMAIN t THEN t[authid] ELSE <<None, None>>

\* defer.succeed(result): a deferred that has fired already
Succeed(result) == [called |-> TRUE, result |-> result]

\* a slip of the lookup below: the deferred fires later, from the reactor
Lookup_Later(t, authid) == [called |-> FALSE, result |-> get(t, authid)]

\* UserDb.get as onHello sees it: the deferred it returns
Lookup(t, authid) == Succeed(get(t, authid))

\* the store the main block builds
SeededDb ==
    add(add(<<>>, "peter", "user", "magic_secret_1"),
        "joe", "user", "magic_secret_2")

\* --------------------------------------------------------- MyRouterSession
\* a slip of the call below: authid and authrole change places
SetupPending_Swapped(ticket, authid, authrole, authmethod) ==
    PendingAuth(ticket, authrole, authid, authmethod, "userdb")

\* the record a session stores for a found user
SetupPending(ticket, authid, authrole, authmethod) ==
    PendingAuth(ticket, authid, authrole, authmethod, "userdb")

\* a slip of the test below: "if ticket is not None:" lets '' through
UserFound_NotNone(ticket) == ticket # None

\* a slip of the test below: "if ticket != '':" lets None through
UserFound_NotEmpty(ticket) == ticket # ""

\* the test "if ticket:" on the looked-up ticket
UserFound(ticket) == Truthy(ticket)

\* a slip of the test below: every offered method is taken for a ticket one
IsTicketMethod_Any(authmethod) == TRUE

\* the test "if authmethod == u'ticket':"
IsTicketMethod(authmethod) == authmethod = "ticket"

\* the for loop of onHello from position i on, after n lookups: the reply,
\* the pending record, the lookups made
RECURSIVE HelloLoop(_, _, _, _, _)
HelloLoop(t, authid, list, i, n) ==
    IF i > Len(list)
    THEN [reply |-> Deny, pending |-> NonePending, lookups |-> n]
    ELSE IF IsTicketMethod(list[i])
         THEN LET r == get(t, authid)
              IN  IF UserFound(r[1])
                  THEN [reply |-> Challenge("ticket"),
                        pending |-> SetupPending(r[1], authid, r[2], list[i]),
                        lookups |-> n + 1]
                  ELSE HelloLoop(t, authid, list, i + 1, n + 1)
         ELSE HelloLoop(t, authid, list, i + 1, n)

\* the body of onHello after "self._pending_auth = None"
HelloBody(t, details) ==
    IF MethodsTruthy(details.authmethods)
    THEN HelloLoop(t, details.authid, details.authmethods.list, 1, 0)
    ELSE [reply |-> Deny, pending |-> NonePending, lookups |-> 0]

\* a slip of the body below: the signature comparison is left out
AuthenticateBody_NoCompare(p, signature) ==
    IF p = Unset
    THEN AttributeError
    ELSE IF PendingTruthy(p)
         THEN Accept(p.authid, p.authrole, p.authmethod, p.authprovider)
         ELSE Deny

\* the body of onAuthenticate: what it returns, or the exception it raises
\* when the attribute _pending_auth was never assigned
AuthenticateBody(p, signature) ==
    IF p = Unset
    THEN AttributeError
    ELSE IF PendingTruthy(p) /\ signature = p.signature
         THEN Accept(p.authid, p.authrole, p.authmethod, p.authprovider)
         ELSE Deny

\* a slip of the assignment below: the attribute is kept on the class, so
\* that every session sees the record
AssignPending_Shared(pa, s, p) == [t \in DOMAIN pa |-> p]

\* a slip of the assignment below: "self._pending_auth = None" at the start
\* of onHello is left out, so that only a found user changes the attribute
\* a slip of the assignment below: the value goes to a local name and the
\* attribute of the session is left as it was
AssignPending_Lost(pa, s, p) == pa

AssignPending_NoClear(pa, s, p) ==
    IF p = NonePending /\ pa[s] # Unset THEN pa ELSE [pa EXCEPT ![s] = p]

\* the assignment to self._pending_auth of session s
AssignPending(pa, s, p) == [pa EXCEPT ![s] = p]

\* the position of the first "ticket" entry of list from position i on,
\* 0 when there is none: the next lookup of the for loop
RECURSIVE NextTicket(_, _)
NextTicket(list, i) ==
    IF i > Len(list) THEN 0
    ELSE IF IsTicketMethod(list[i]) THEN i ELSE NextTicket(list, i + 1)

\* the first position the for loop of onHello looks at, 0 when
\* "if details.authmethods" fails
FirstTicket(details) ==
    IF MethodsTruthy(details.authmethods)
    THEN NextTicket(details.authmethods.list, 1)
    ELSE 0

\* the generator of onHello: not running, or at the yield of line 84 with
\* the deferred it waits for (position i of the method list)
Idle == [state |-> "idle"]
AtYield(details, i, d) == [state |-> "yield", details |-> details, i |-> i, d |-> d]

VARIABLES
    tickets,        \* UserDb._tickets: authid -> (ticket, authrole)
    pending_auth,   \* session -> MyRouterSession._pending_auth
    reply,          \* session -> what the last handler call returned or raised
    lastcall,       \* session -> the last handler called on it
    lookups,        \* session -> userdb.get calls made by its last onHello
    hello_authid,   \* session -> details.authid of its last onHello
    emitted,        \* session -> kinds of decisions it has returned so far
    tick,           \* parity of the number of handler calls
    gen,            \* session -> the generator of its onHello (SpecReactor)
    connected,      \* connections of HelloServerProtocol that were made
    written,        \* connection -> what was written to its transport
    stdout          \* connection -> what its protocol printed

vars == <<tickets, pending_auth, reply, lastcall, lookups,
          hello_authid, emitted, tick, gen, connected, written, stdout>>

\* the state of HelloServerProtocol and its transports
wrapvars == <<connected, written, stdout>>
\* the state of the ticket example
authvars == <<tickets, pending_auth, reply, lastcall, lookups,
              hello_authid, emitted, tick, gen>>

Connections == {"c1", "c2"}
Chunks == {"hello", "how are you?"}

Init ==
    /\ tickets = SeededDb
    /\ pending_auth = [s \in Sessions |-> Unset]
    /\ reply = [s \in Sessions |-> NoReply]
    /\ lastcall = [s \in Sessions |-> "none"]
    /\ lookups = [s \in Sessions |-> 0]
    /\ hello_authid = [s \in Sessions |-> None]
    /\ emitted = [s \in Sessions |-> {}]
    /\ tick = 0
    /\ gen = [s \in Sessions |-> Idle]
    /\ connected = {}
    /\ written = [c \in Connections |-> <<>>]
    /\ stdout = [c \in Connections |-> <<>>]

\* what the decisions returned so far become when r is returned
Emit(e, r) == IF r.kind \in {"Challenge", "Accept", "Deny"} THEN e \cup {r.kind} ELSE e

\* a slip of the operator below: a pending record holds a reference to the
\* store's entry, so that an add for its authid shows through
PendingAfterAdd_Alias(pa, authid, authrole, ticket) ==
    [s \in DOMAIN pa |->
        IF pa[s].kind = "PendingAuth" /\ pa[s].authid = authid
        THEN [pa[s] EXCEPT !.signature = ticket, !.authrole = authrole]
        ELSE pa[s]]

\* what UserDb.add does to the sessions' pending records: nothing, it assigns
\* self._tickets[authid] only and a PendingAuth holds copies of the values
PendingAfterAdd(pa, authid, authrole, ticket) == pa

UserDbAdd(authid, authrole, ticket) ==
    /\ tickets' = add(tickets, authid, authrole, ticket)
    /\ pending_auth' = PendingAfterAdd(pending_auth, authid, authrole, ticket)
    /\ UNCHANGED <<reply, lastcall, lookups, hello_authid, emitted, tick>>
    /\ UNCHANGED <<gen, wrapvars>>

onHello(s, details) ==
    LET h == HelloBody(tickets, details)
    IN  /\ pending_auth' = AssignPending(pending_auth, s, h.pending)
        /\ reply' = [reply EXCEPT ![s] = h.reply]
        /\ lastcall' = [lastcall EXCEPT ![s] = "onHello"]
        /\ lookups' = [lookups EXCEPT ![s] = h.lookups]
        /\ hello_authid' = [hello_authid EXCEPT ![s] = details.authid]
        /\ emitted' = [emitted EXCEPT ![s] = Emit(@, h.reply)]
        /\ tick' = 1 - tick
        /\ UNCHANGED <<tickets, gen, wrapvars>>

onAuthenticate(s, signature) ==
    LET r == AuthenticateBody(pending_auth[s], signature)
    IN  /\ reply' = [reply EXCEPT ![s] = r]
        /\ lastcall' = [lastcall EXCEPT ![s] = "onAuthenticate"]
        /\ emitted' = [emitted EXCEPT ![s] = Emit(@, r)]
        /\ tick' = 1 - tick
        /\ UNCHANGED <<tickets, pending_auth, lookups, hello_authid>>
        /\ UNCHANGED <<gen, wrapvars>>

\* the calls that reach one session
HandlerCall(s) ==
    \/ \E d \in HelloDetails : onHello(s, d)
    \/ \E g \in Signatures : onAuthenticate(s, g)

StoreCall == \E a \in AddIds, r \in Roles, t \in Tickets : UserDbAdd(a, r, t)

\* one client connection: the router has one session at work
NextSingle ==
    \/ StoreCall
    \/ HandlerCall("s1")

Spec == Init /\ [][NextSingle]_vars

\* two client connections whose handshakes interleave in any order
NextPair ==
    \/ StoreCall
    \/ \E s \in Sessions : HandlerCall(s)

SpecPair == Init /\ [][NextPair]_vars

\* ------------------------------------------------- onHello, step by step
\* the reactor runs one thing at a time: a handler is called only when no
\* generator is running, which a generator at a yield is unless its deferred
\* has not fired
ReactorFree ==
    \A s \in Sessions :
        IF gen[s].state = "idle" THEN TRUE ELSE ~gen[s].d.called

\* onHello leaves the for loop without a found user: "deny client"
HelloDenied(s) ==
    /\ reply' = [reply EXCEPT ![s] = Deny]
    /\ emitted' = [emitted EXCEPT ![s] = Emit(@, Deny)]
    /\ gen' = [gen EXCEPT ![s] = Idle]

\* onHello is called: lines 75-84, up to the first yield, or to the Deny of
\* line 96 when no lookup is to be made
HelloCall(s, details) ==
    /\ ReactorFree
    /\ gen[s].state = "idle"
    /\ lastcall' = [lastcall EXCEPT ![s] = "onHello"]
    /\ hello_authid' = [hello_authid EXCEPT ![s] = details.authid]
    /\ tick' = 1 - tick
    /\ pending_auth' = AssignPending(pending_auth, s, NonePending)
    /\ LET i == FirstTicket(details)
       IN  IF i = 0
           THEN /\ HelloDenied(s)
                /\ lookups' = [lookups EXCEPT ![s] = 0]
           ELSE /\ gen' = [gen EXCEPT ![s] =
                            AtYield(details, i, Lookup(tickets, details.authid))]
                /\ lookups' = [lookups EXCEPT ![s] = 1]
                /\ reply' = [reply EXCEPT ![s] = NoReply]
                /\ UNCHANGED emitted
    /\ UNCHANGED <<tickets, wrapvars>>

\* the deferred's callback resumes the generator after the yield: lines
\* 84-96, up to the next yield or to the return
HelloResume(s) ==
    /\ gen[s].state = "yield"
    /\ LET details == gen[s].details
           list == details.authmethods.list
           r == gen[s].d.result
       IN  IF UserFound(r[1])
           THEN /\ pending_auth' = AssignPending(pending_auth, s,
                       SetupPending(r[1], details.authid, r[2], list[gen[s].i]))
                /\ reply' = [reply EXCEPT ![s] = Challenge("ticket")]
                /\ emitted' = [emitted EXCEPT ![s] = Emit(@, Challenge("ticket"))]
                /\ gen' = [gen EXCEPT ![s] = Idle]
                /\ UNCHANGED lookups
           ELSE LET j == NextTicket(list, gen[s].i + 1)
                IN  IF j = 0
                    THEN /\ HelloDenied(s)
                         /\ UNCHANGED <<pending_auth, lookups>>
                    ELSE /\ gen' = [gen EXCEPT ![s] =
                                AtYield(details, j, Lookup(tickets, details.authid))]
                         /\ lookups' = [lookups EXCEPT ![s] = @ + 1]
                         /\ UNCHANGED <<pending_auth, reply, emitted>>
    /\ UNCHANGED <<tickets, lastcall, hello_authid, tick, wrapvars>>

\* the reactor with one client connection
NextReactor ==
    \/ ReactorFree /\ StoreCall
    \/ \E d \in HelloDetails : HelloCall("s1", d)
    \/ HelloResume("s1")
    \/ \E g \in Signatures : ReactorFree /\ onAuthenticate("s1", g)

\* a deferred that has fired calls its callbacks at once
SpecReactor == Init /\ [][NextReactor]_vars /\ WF_vars(HelloResume("s1"))

\* the steps above end where the whole call ends: the reply, the attribute
\* and the number of lookups are those of HelloBody
HelloStepsAgree ==
    [][\A s \in Sessions :
        (gen[s].state = "yield" /\ gen'[s].state = "idle") =>
            LET h == HelloBody(tickets, gen[s].details)
            IN  /\ reply'[s] = h.reply
                /\ pending_auth'[s] = h.pending
                /\ lookups'[s] = h.lookups]_vars

\* ------------------------------------------------------ HelloServerProtocol
\* the greeting of connectionMade
Greeting == "how are you?"

\* what connectionMade writes to the transport
connectionMadeWrites(w) == Append(w, Greeting)

\* a slip of the operator below: the chunk is echoed to the peer
dataReceivedWrites_Echo(w, data) == Append(w, data)

\* what dataReceived writes to the transport: nothing
dataReceivedWrites(w, data) == w

\* Twisted calls connectionMade once, when the connection is made
connectionMade(c) ==
    /\ c \notin connected
    /\ connected' = connected \cup {c}
    /\ stdout' = [stdout EXCEPT ![c] = Append(@, <<"connectionMade">>)]
    /\ written' = [written EXCEPT ![c] = connectionMadeWrites(@)]
    /\ UNCHANGED authvars

\* Twisted calls dataReceived for every chunk that arrives on a connection
\* that was made
dataReceived(c, data) ==
    /\ c \in connected
    /\ Len(stdout[c]) <= MaxChunks
    /\ stdout' = [stdout EXCEPT ![c] = Append(@, <<"dataReceived", data>>)]
    /\ written' = [written EXCEPT ![c] = dataReceivedWrites(@, data)]
    /\ UNCHANGED <<connected, authvars>>

NextWrapper ==
    \E c \in Connections :
        \/ connectionMade(c)
        \/ \E data \in Chunks : dataReceived(c, data)

SpecWrapper == Init /\ [][NextWrapper]_vars

\* ------------------------------------------------------------ the handshake
\* no "ticket" entry in details.authmethods (absent, empty, or other methods)
NoTicketOffered(m) ==
    \/ m.tag = "None"
    \/ \A i \in 1..Len(m.list) : m.list[i] # "ticket"

TicketOffered(m) == ~NoTicketOffered(m)

IsPending(p) == p.kind = "PendingAuth"

\* what a client gets back that sends hello(details) and then
\* authenticate(signature) to a new session, with the store t
ClientRun(t, details, signature) ==
    LET h == HelloBody(t, details)
    IN  <<h.reply, AuthenticateBody(h.pending, signature)>>

\* C1: a pending record is created by a hello from the authid's stored
\* (secret S, role R) and is changed by nothing but a hello of its session;
\* with a pending record, authenticate(S) returns Accept(authid, R, "ticket",
\* "userdb"), and authenticate of any other response returns Deny.
C1_AcceptOnlyForExpectedSecret ==
    [][\A s \in Sessions :
        /\ \A d \in HelloDetails :
              (onHello(s, d) /\ IsPending(pending_auth'[s])) =>
                  /\ d.authid \in DOMAIN tickets
                  /\ pending_auth'[s] =
                        [kind |-> "PendingAuth",
                         signature |-> tickets[d.authid][1],
                         authid |-> d.authid,
                         authrole |-> tickets[d.authid][2],
                         authmethod |-> "ticket",
                         authprovider |-> "userdb"]
        /\ \A g \in Signatures :
              (onAuthenticate(s, g) /\ IsPending(pending_auth[s])) =>
                  /\ pending_auth'[s] = pending_auth[s]
                  /\ IF g = pending_auth[s].signature
                     THEN reply'[s] =
                            [kind |-> "Accept",
                             authid |-> pending_auth[s].authid,
                             authrole |-> pending_auth[s].authrole,
                             authmethod |-> "ticket",
                             authprovider |-> "userdb"]
                     ELSE reply'[s] = [kind |-> "Deny"]
        /\ (pending_auth'[s] # pending_auth[s]) => \E d \in HelloDetails : onHello(s, d)
      ]_vars

\* a session was accepted for peter as the main block stored him, after
\* it had been denied
C1_Witness ==
    \E s \in Sessions :
        /\ lastcall[s] = "onAuthenticate"
        /\ IsPending(pending_auth[s])
        /\ pending_auth[s].signature = "magic_secret_1"
        /\ reply[s] = Accept("peter", "user", "ticket", "userdb")
        /\ emitted[s] = {"Challenge", "Deny", "Accept"}

\* C2: a hello for an authid that is not in the store returns Deny, not
\* Challenge, and leaves the session without a pending record.
C2_UnknownAuthidDenied ==
    [][\A s \in Sessions, d \in HelloDetails :
        (onHello(s, d) /\ d.authid \notin DOMAIN tickets) =>
            /\ reply'[s] = [kind |-> "Deny"]
            /\ pending_auth'[s] = [kind |-> "None"]
      ]_vars

\* a hello that offered "ticket" (it made a lookup) for an unknown authid
C2_Witness ==
    \E s \in Sessions :
        /\ lastcall[s] = "onHello"
        /\ hello_authid[s] \notin DOMAIN tickets
        /\ lookups[s] = 1
        /\ reply[s] = Deny
        /\ pending_auth[s] = NonePending

\* C3: a hello that offers "ticket" for an authid in the store, whatever its
\* secret S (the empty one too), returns Challenge("ticket") and records a
\* pending record whose expected secret is S.
C3_KnownAuthidChallenged ==
    [][\A s \in Sessions, d \in HelloDetails :
        (onHello(s, d) /\ TicketOffered(d.authmethods)
                       /\ d.authid \in DOMAIN tickets) =>
            /\ reply'[s] = [kind |-> "Challenge", method |-> "ticket"]
            /\ IsPending(pending_auth'[s])
            /\ pending_auth'[s].signature = tickets[d.authid][1]
      ]_vars

\* C4: after a Challenge, an authenticate that directly follows another
\* authenticate on the session returns Deny.
C4_SecondAuthenticateDenied ==
    [][\A s \in Sessions, g \in Signatures :
        (/\ onAuthenticate(s, g)
         /\ lastcall[s] = "onAuthenticate"
         /\ "Challenge" \in emitted[s]
         /\ reply[s].kind \in {"Accept", "Deny"}) =>
            reply'[s] = [kind |-> "Deny"]
      ]_vars

\* C5: authenticate on a session without a pending record (none was ever
\* assigned, or the last hello was denied) returns Deny.
C5_NoPendingDenied ==
    [][\A s \in Sessions, g \in Signatures :
        (onAuthenticate(s, g) /\ ~IsPending(pending_auth[s])) =>
            reply'[s] = [kind |-> "Deny"]
      ]_vars

\* C6: a hello whose method list is absent, empty or without "ticket" returns
\* Deny and makes no lookup, whatever the authid.
C6_NoTicketNoLookup ==
    [][\A s \in Sessions, d \in HelloDetails :
        (onHello(s, d) /\ NoTicketOffered(d.authmethods)) =>
            /\ reply'[s] = [kind |-> "Deny"]
            /\ lookups'[s] = 0
            /\ pending_auth'[s] = [kind |-> "None"]
      ]_vars

\* a hello for an authid of the store that was denied without a lookup
C6_Witness ==
    \E s \in Sessions :
        /\ lastcall[s] = "onHello"
        /\ hello_authid[s] \in DOMAIN tickets
        /\ Truthy(tickets[hello_authid[s]][1])
        /\ lookups[s] = 0
        /\ reply[s] = Deny

\* C7: a hello on a session that has already processed a hello returns Deny
\* and puts no new pending record in the place of the session's one.
C7_SecondHelloDenied ==
    [][\A s \in Sessions, d \in HelloDetails :
        (onHello(s, d) /\ lastcall[s] # "none" /\ hello_authid[s] # None) =>
            /\ reply'[s] = [kind |-> "Deny"]
            /\ IsPending(pending_auth'[s]) => pending_auth'[s] = pending_auth[s]
      ]_vars

\* C8: once a session has returned Accept or Deny, no later call on it
\* returns Challenge or Accept, and once it has returned Accept, none
\* returns Deny.
C8_DecisionsAreTerminal ==
    [][\A s \in Sessions :
        HandlerCall(s) =>
            /\ (emitted[s] \cap {"Accept", "Deny"} # {}) =>
                   reply'[s].kind \notin {"Challenge", "Accept"}
            /\ ("Accept" \in emitted[s]) => reply'[s].kind # "Deny"
      ]_vars

\* C9: a step changes the pending record of at most one session, and that
\* step is a hello of this very session, which stores the hello's own authid
\* with the secret and role the store holds for it; every Accept a session
\* has got carries the authid of the session's own last hello and the role of
\* the session's own pending record.
C9_SessionsDoNotMix ==
    [][\A s \in Sessions :
        /\ (pending_auth'[s] # pending_auth[s]) =>
              /\ lastcall'[s] = "onHello"
              /\ \A t \in Sessions \ {s} : pending_auth'[t] = pending_auth[t]
              /\ IsPending(pending_auth'[s]) =>
                    /\ pending_auth'[s].authid = hello_authid'[s]
                    /\ hello_authid'[s] \in DOMAIN tickets
                    /\ pending_auth'[s].signature = tickets[hello_authid'[s]][1]
                    /\ pending_auth'[s].authrole = tickets[hello_authid'[s]][2]
        /\ (reply'[s].kind = "Accept") =>
              /\ IsPending(pending_auth'[s])
              /\ reply'[s].authid = hello_authid'[s]
              /\ reply'[s].authid = pending_auth'[s].authid
              /\ reply'[s].authrole = pending_auth'[s].authrole
      ]_vars

\* peter was accepted on one session while the other one is in the middle of
\* joe's handshake
C9_Witness ==
    \E s, t \in Sessions :
        /\ reply[s] = Accept("peter", "user", "ticket", "userdb")
        /\ hello_authid[s] = "peter"
        /\ hello_authid[t] = "joe"
        /\ reply[t] = Challenge("ticket")
        /\ IsPending(pending_auth[t])
        /\ pending_auth[t].authid = "joe"

\* C10: hello with "ticket" and then authenticate with a wrong response get
\* the same replies for an authid that is not in the store as for one that is.
C10_UnknownLooksLikeWrongSecret ==
    \A a, b \in AuthIds, g \in Signatures :
        (/\ a \notin DOMAIN tickets
         /\ b \in DOMAIN tickets
         /\ g # tickets[b][1]) =>
            ClientRun(tickets, [authid |-> a, authmethods |-> MethodList(<<"ticket">>)], g)
              = ClientRun(tickets, [authid |-> b, authmethods |-> MethodList(<<"ticket">>)], g)

\* C12: whatever add is called with in a reachable store, get then returns
\* the (ticket, authrole) of that add for its authid, also when the authid had
\* an entry, and what it returned before for every other authid; get returns
\* (None, None) for an authid nothing was added for, and the entries of the
\* main block are as they were added.
C12_LastAddWins ==
    /\ \A a \in AuthIds, r \in Roles, t \in Tickets :
          LET t2 == add(tickets, a, r, t)
          IN  /\ get(t2, a) = <<t, r>>
              /\ \A b \in AuthIds \ {a} : get(t2, b) = get(tickets, b)
    /\ \A a \in AuthIds \ DOMAIN tickets : get(tickets, a) = <<"None", "None">>
    /\ get(tickets, "peter") = <<"magic_secret_1", "user">>
    /\ get(tickets, "joe") = <<"magic_secret_2", "user">>

\* nobody was added after the main block, peter and joe kept their entries
C12_Witness ==
    /\ DOMAIN tickets = {"peter", "joe", "nobody"}
    /\ tickets["nobody"] = <<"magic_secret_2", "admin">>
    /\ tickets["peter"] = <<"magic_secret_1", "user">>

\* C14: one hello makes at most one lookup: one when "ticket" is offered,
\* however often, and none otherwise; when the lookup finds no user the hello
\* returns Deny.
C14_AtMostOneLookup ==
    [][\A s \in Sessions, d \in HelloDetails :
        onHello(s, d) =>
            /\ lookups'[s] <= 1
            /\ lookups'[s] = 1 <=> TicketOffered(d.authmethods)
            /\ (TicketOffered(d.authmethods) /\ ~Truthy(get(tickets, d.authid)[1])) =>
                  reply'[s] = [kind |-> "Deny"]
      ]_vars

\* C16: a session that has been accepted was challenged before, and the
\* Accept it got carries the authid of its last hello, which is the authid of
\* the pending record it holds.
C16_AcceptOnlyAfterChallenge ==
    \A s \in Sessions :
        /\ ("Accept" \in emitted[s]) => ("Challenge" \in emitted[s])
        /\ (reply[s].kind = "Accept") =>
              /\ "Challenge" \in emitted[s]
              /\ IsPending(pending_auth[s])
              /\ reply[s].authid = hello_authid[s]
              /\ reply[s].authid = pending_auth[s].authid
              /\ reply[s].authid \in AuthIds

\* a session accepted as joe after joe's hello was challenged
C16_Witness ==
    \E s \in Sessions :
        /\ lastcall[s] = "onAuthenticate"
        /\ reply[s].kind = "Accept"
        /\ reply[s].authid = "joe"
        /\ hello_authid[s] = "joe"
        /\ emitted[s] = {"Challenge", "Accept"}

\* C17: an add leaves every pending record as it is, and an authenticate is
\* decided against the pending record alone: when the store holds other
\* values for the record's authid than the record, the record's secret is
\* accepted with the record's role and the store's secret is denied.
C17_PendingIsSnapshot ==
    [][/\ \A a \in AddIds, r \in Roles, t \in Tickets :
            UserDbAdd(a, r, t) => pending_auth' = pending_auth
       /\ \A s \in Sessions, g \in Signatures :
            (/\ onAuthenticate(s, g)
             /\ IsPending(pending_auth[s])
             /\ get(tickets, pending_auth[s].authid)
                  # <<pending_auth[s].signature, pending_auth[s].authrole>>) =>
                IF g = pending_auth[s].signature
                THEN reply'[s] =
                       [kind |-> "Accept",
                        authid |-> pending_auth[s].authid,
                        authrole |-> pending_auth[s].authrole,
                        authmethod |-> "ticket",
                        authprovider |-> "userdb"]
                ELSE reply'[s] = [kind |-> "Deny"]
      ]_vars

\* a session accepted with the secret and the role of its hello, where the
\* store now holds another secret and another role for the authid
C17_Witness ==
    \E s \in Sessions :
        /\ lastcall[s] = "onAuthenticate"
        /\ IsPending(pending_auth[s])
        /\ pending_auth[s].authid = "nobody"
        /\ "nobody" \in DOMAIN tickets
        /\ tickets["nobody"][1] # pending_auth[s].signature
        /\ tickets["nobody"][2] # pending_auth[s].authrole
        /\ reply[s] = Accept("nobody", pending_auth[s].authrole, "ticket", "userdb")

\* C18: after a hello the session holds a pending record exactly when the
\* hello returned Challenge, whatever it held before; nothing but a hello of
\* the session changes the record; an authenticate that follows a denied
\* hello returns Deny.
C18_HelloClearsPending ==
    [][\A s \in Sessions :
        /\ \A d \in HelloDetails :
              onHello(s, d) =>
                  /\ IsPending(pending_auth'[s]) <=> reply'[s].kind = "Challenge"
                  /\ reply'[s].kind = "Deny" => pending_auth'[s] = [kind |-> "None"]
        /\ (pending_auth'[s] # pending_auth[s]) => lastcall'[s] = "onHello"
        /\ \A g \in Signatures :
              (onAuthenticate(s, g) /\ lastcall[s] = "onHello"
                                    /\ reply[s].kind = "Deny") =>
                  reply'[s] = [kind |-> "Deny"]
      ]_vars

\* a session that was challenged, then denied by a later hello, and then
\* denied by the authenticate that followed
C18_Witness ==
    \E s \in Sessions :
        /\ emitted[s] = {"Challenge", "Deny"}
        /\ lastcall[s] = "onAuthenticate"
        /\ reply[s] = Deny
        /\ pending_auth[s] = NonePending

C11_NoAuthenticateDuringLookup ==
    [][\A s \in Sessions :
        gen[s].state = "yield" =>
            /\ lastcall'[s] = "onHello"
            /\ reply'[s].kind # "Accept"
            /\ "Accept" \in emitted'[s] => "Accept" \in emitted[s]
            /\ reply'[s].kind = "Challenge" => reply[s] = NoReply]_vars

\* a hello of peter is suspended at its lookup on a session that was
\* challenged before, so that a client has an authenticate to send
C11_Witness ==
    \E s \in Sessions :
        /\ gen[s].state = "yield"
        /\ gen[s].d.called
        /\ gen[s].details.authid = "peter"
        /\ "Challenge" \in emitted[s]

\* C15: every hello whose lookups return ends, and ends with exactly one
\* decision: none is made while it is suspended, the one it ends with is
\* Challenge("ticket") or Deny, never Accept, and it is Challenge exactly
\* when the hello left a pending record.
C15_HelloDecidesOnce ==
    /\ [](\A s \in Sessions :
            gen[s].state = "yield" =>
                reply[s] = NoReply /\ ~IsPending(pending_auth[s]))
    /\ [][\A s \in Sessions :
            /\ (gen[s].state = "yield" /\ gen'[s].state = "yield") =>
                    emitted'[s] = emitted[s]
            /\ ( /\ gen'[s].state = "idle"
                 /\ lastcall'[s] = "onHello"
                 /\ gen[s].state = "yield" \/ tick' # tick ) =>
                    /\ reply'[s] \in {Challenge("ticket"), Deny}
                    /\ reply'[s].kind = "Challenge" <=> IsPending(pending_auth'[s])
                    /\ emitted'[s] = emitted[s] \cup {reply'[s].kind}]_vars
    /\ \A s \in Sessions :
            (gen[s].state = "yield") ~>
                (gen[s].state = "idle" /\ reply[s].kind \in {"Challenge", "Deny"})

\* a hello that made two lookups has ended with Deny, and another with
\* Challenge
C15_Witness ==
    \E s \in Sessions :
        /\ gen[s].state = "idle"
        /\ lastcall[s] = "onHello"
        /\ lookups[s] = 2
        /\ reply[s] = Deny
        /\ "Challenge" \in emitted[s]

\* C20: on every connection the greeting is written once, when the
\* connection is made, and a chunk that arrives writes nothing and changes
\* nothing of the protocol but its output.
C20_GreetingOnceOnly ==
    [][\A c \in Connections :
        /\ written'[c] = IF c \in connected' THEN <<Greeting>> ELSE <<>>
        /\ (c \in connected /\ stdout'[c] # stdout[c]) =>
                /\ written'[c] = written[c]
                /\ connected' = connected
                /\ \E data \in Chunks :
                        stdout'[c] = Append(stdout[c], <<"dataReceived", data>>)]_vars

\* a connection has received as many chunks as it can, the greeting among
\* them
C20_Witness ==
    \E c \in Connections :
        /\ c \in connected
        /\ Len(stdout[c]) = MaxChunks + 1
        /\ \E i \in 1..Len(stdout[c]) : stdout[c][i] = <<"dataReceived", Greeting>>

====
